---- MODULE Spec2Model ----
(***************************************************************************)
(* One server-side Client session of easyTCP2 (Server/Client.py): the      *)
(* handshake run by register() under its deadline, admission (_register),  *)
(* the dispatch loop (listen / process), error signalling                  *)
(* (raise_error_code), and close() / kill().                               *)
(*                                                                         *)
(* The session's own task runs register(); every received message becomes  *)
(* an independent task; close() and kill() may also be called from outside *)
(* the session's task (caller "ext").  Steps are split at the awaits.      *)
(*                                                                         *)
(* The log statements (lines 88, 163, 185, 197) are modelled as having no  *)
(* effect on the state.                                                    *)
(***************************************************************************)
EXTENDS Integers, Sequences, FiniteSets, TLC

\* ------------------------------------------------------------------ bounds
MaxGroups   == 2    \* groups the server may put the session in
MaxMsgs     == 2    \* application messages received by the dispatch loop
MaxExtCalls == 2    \* close() and kill() calls made from outside listen()
MaxRaises   == 2    \* raise_error_code calls made from outside the session

Groups  == 1 .. MaxGroups
Callers == {"listen", "ext"}

\* ------------------------------------------------------- collaborators
\* Server.version / Server.supported_versions and the peer's possible answers
server_version     == "v1"
supported_versions == {"v1"}
\* the PHASE 1 replies the peer may give: status okay or not (in either
\* spelling of okay), version supported or not
Replies ==
  { [status |-> "okay", version |-> "v1"], [status |-> "OKAY", version |-> "v9"],
    [status |-> "no", version |-> "v1"],   [status |-> "no", version |-> "v9"] }
HsMethods          == {"HANDSHAKE", "PHASE 1", "OTHER"}

\* server.Request: the handlers registered by name
Request    == {"foo"}
AppMethods == {"foo", "bar"}

NoReply == [status |-> "none", version |-> "none"]

\* str.lower() on the status strings the peer may send
Lower(s) == IF s = "OKAY" THEN "okay" ELSE s

\* Client.error_codes
error_codes == [c \in {2, 6} |-> IF c = 2 THEN "HandshakeError" ELSE "Recved404Error"]

\* the codes outside callers pass to raise_error_code: the two of the table,
\* the sentinel itself, and two that are not in the table
Codes == {-1, 0, 2, 6, 9}

\* a lookup that resolves a code outside the table to an error kind of its
\* own instead of the sentinel
ErrorLookupMut(code) ==
  IF code \in DOMAIN error_codes THEN error_codes[code] ELSE "UndefinedError"

\* self.error_codes.get(code, -1)
ErrorLookup(code) == IF code \in DOMAIN error_codes THEN error_codes[code] ELSE "-1"

\* values an 'error' hook may return; -1 is the "unhandled" signal
HookReturns == {-1, 0}

VARIABLES
  pc,          \* position of the task running register()
  hsOutcome,   \* "none" | "ok" | "failed": how handshake() under wait_for ended
  hsCause,     \* why the handshake failed
  reply,       \* handshake()'s local 'code': the PHASE 1 reply, or NoReply
  transport,   \* "open" | "closed": the session's writer
  peer,        \* "up" | "gone"
  sent,        \* methods sent by handshake(), in order
  got,         \* methods received by handshake(), in order
  registry,    \* the server's client registry (session ids)
  addClientCalls,
  joinTask,    \* "none" | "scheduled" | "ran": the task created at line 198
  joinCount,   \* tasks created for the join hook
  groups,      \* self.groups
  member,      \* member[g]: group g contains the session
  kpc,         \* kpc[c]: position of caller c's kill()
  pending,     \* pending[c]: removals asyncio.wait is still waiting for
  killCalls,   \* killCalls[c]: kill() calls entered by caller c
  afterClose,  \* afterClose[c]: close() had been called before c's kill()
  steps,       \* steps[c]: what c's current kill() has done, in order
  leftCount,   \* tasks created for the left hook
  extCloses,   \* close() calls from outside kill()
  hook,        \* an 'error' hook is registered
  errLog,      \* the raise_error_code calls made from outside the session's
               \* own code, in order, each with what it did
  errCalls,    \* errCalls[code]: raise_error_code(code) calls
  raised,      \* what register() raised to its caller, or "none"
  recvCount,   \* messages received by the dispatch loop
  tasks        \* the process() tasks created by the dispatch loop

vars == <<pc, hsOutcome, hsCause, reply, transport, peer, sent, got, registry,
          addClientCalls, joinTask, joinCount, groups, member, kpc, pending,
          killCalls, afterClose, steps, leftCount,
          extCloses, hook, errLog, errCalls, raised, recvCount, tasks>>

hsVars    == <<hsOutcome, hsCause, reply, got>>
killVars  == <<kpc, pending, killCalls, afterClose, steps, leftCount>>
groupVars == <<groups, member>>
admitVars == <<registry, addClientCalls, joinTask, joinCount>>
loopVars  == <<recvCount, tasks>>
hookVars  == <<hook, errLog>>

HsStates == {"hs_start", "hs_echo", "hs_phase1", "hs_ack", "hs_check"}

\* Client.__init__
Init ==
  /\ pc = "new"
  /\ hsOutcome = "none" /\ hsCause = "none" /\ reply = NoReply
  /\ transport = "open" /\ peer = "up"
  /\ sent = <<>> /\ got = <<>>
  /\ registry = {} /\ addClientCalls = 0
  /\ joinTask = "none" /\ joinCount = 0
  /\ groups = {} /\ member = [g \in Groups |-> FALSE]
  /\ kpc = [c \in Callers |-> "none"]
  /\ pending = [c \in Callers |-> {}]
  /\ killCalls = [c \in Callers |-> 0]
  /\ afterClose = [c \in Callers |-> FALSE]
  /\ steps = [c \in Callers |-> <<>>]
  /\ leftCount = 0 /\ extCloses = 0
  /\ hook \in BOOLEAN /\ errLog = <<>>
  /\ errCalls = [c \in {2, 6} |-> 0]
  /\ raised = "none"
  /\ recvCount = 0 /\ tasks = <<>>

\* ------------------------------------------------------ framed transport
\* Protocol.send / Protocol.recv succeed only on an open stream to a live peer
CanSend == transport = "open" /\ peer = "up"
CanRecv == transport = "open" /\ peer = "up"

\* the peer drops the connection while the session still reads from it and
\* its own end is open (behind a closed writer the peer cannot be observed)
PeerDisconnect ==
  /\ peer = "up"
  /\ transport = "open"
  /\ pc \in HsStates \cup {"listen"}
  /\ peer' = "gone"
  /\ UNCHANGED <<pc, hsVars, transport, sent, admitVars, groupVars, killVars,
                 extCloses, hookVars, errCalls, raised, loopVars>>

\* ------------------------------------------------------- error signalling
\* self.call('error', error=error): without a registered hook the call
\* yields -1; a registered hook returns a value of its own
HookRet == IF hook THEN HookReturns ELSE {-1}

\* line 184: the hook's return value decides whether the error is raised
Unhandled(ret) == ret = -1

\* line 186, raise error: -1 is not an exception, raising it is a TypeError
Raise(error) == IF error = "-1" THEN "TypeError" ELSE error

\* lines 180-186, called on its own: the lookup, one call of the 'error'
\* hook with the looked-up error, and the raise when the hook's answer is -1
raise_error_code(code) ==
  /\ Len(errLog) < MaxRaises
  /\ LET error == ErrorLookup(code) IN
       \E ret \in HookRet :
          errLog' = Append(errLog,
                      [code |-> code, error |-> error,
                       hookCalls |-> 1, hookArg |-> error, ret |-> ret,
                       exc |-> IF Unhandled(ret) THEN Raise(error) ELSE "none"])
  /\ UNCHANGED <<pc, hsVars, transport, peer, sent, admitVars, groupVars,
                 killVars, extCloses, hook, errCalls, raised, loopVars>>

\* raise_error_code applied to every code, with and without a hook
NextErr == \E code \in Codes : raise_error_code(code)

\* ------------------------------------------------------------- handshake
\* line 119: the condition under which handshake() sends BREAK and raises
Rejects(code) ==
  ~(Lower(code.status) = "okay") /\ ~(code.version \in supported_versions)

\* an exception leaves handshake() (or wait_for cancels it): the except
\* clause of register() is entered
HsFail(cause) ==
  /\ pc' = "hs_failed"
  /\ hsOutcome' = "failed"
  /\ hsCause' = cause

\* register() is called on the new session: wait_for starts handshake()
register ==
  /\ pc = "new"
  /\ pc' = "hs_start"
  /\ UNCHANGED <<hsVars, transport, peer, sent, admitVars, groupVars, killVars,
                 extCloses, hookVars, errCalls, raised, loopVars>>

\* line 112: send('HANDSHAKE')
HsSendGreeting ==
  /\ pc = "hs_start"
  /\ IF CanSend
       THEN /\ sent' = Append(sent, "HANDSHAKE")
            /\ pc' = "hs_echo"
            /\ UNCHANGED hsVars
       ELSE /\ HsFail("transport")
            /\ UNCHANGED <<sent, reply, got>>
  /\ UNCHANGED <<transport, peer, admitVars, groupVars, killVars,
                 extCloses, hookVars, errCalls, raised, loopVars>>

\* line 113: expected('HANDSHAKE')
HsExpectEcho ==
  /\ pc = "hs_echo"
  /\ \/ /\ CanRecv
        /\ \E m \in HsMethods :
             /\ got' = Append(got, m)
             /\ IF m = "HANDSHAKE"
                  THEN pc' = "hs_phase1" /\ UNCHANGED <<hsOutcome, hsCause, reply>>
                  ELSE HsFail("mismatch") /\ UNCHANGED reply
     \/ /\ ~CanRecv
        /\ HsFail("transport") /\ UNCHANGED <<reply, got>>
  /\ UNCHANGED <<transport, peer, sent, admitVars, groupVars, killVars,
                 extCloses, hookVars, errCalls, raised, loopVars>>

\* line 116: send('PHASE 1', server_version=...)
HsSendPhase1 ==
  /\ pc = "hs_phase1"
  /\ IF CanSend
       THEN /\ sent' = Append(sent, "PHASE 1")
            /\ pc' = "hs_ack"
            /\ UNCHANGED hsVars
       ELSE /\ HsFail("transport")
            /\ UNCHANGED <<sent, reply, got>>
  /\ UNCHANGED <<transport, peer, admitVars, groupVars, killVars,
                 extCloses, hookVars, errCalls, raised, loopVars>>

\* line 117: _, code = expected('PHASE 1')
HsExpectAck ==
  /\ pc = "hs_ack"
  /\ \/ /\ CanRecv
        /\ \/ \E code \in Replies :
                 /\ got' = Append(got, "PHASE 1")
                 /\ pc' = "hs_check"
                 /\ reply' = code
                 /\ UNCHANGED <<hsOutcome, hsCause>>
           \/ \E m \in HsMethods \ {"PHASE 1"} :
                 /\ got' = Append(got, m)
                 /\ HsFail("mismatch") /\ UNCHANGED reply
     \/ /\ ~CanRecv
        /\ HsFail("transport") /\ UNCHANGED <<reply, got>>
  /\ UNCHANGED <<transport, peer, sent, admitVars, groupVars, killVars,
                 extCloses, hookVars, errCalls, raised, loopVars>>

\* a handshake() whose BREAK is not followed by the raise: it goes on to the
\* final HANDSHAKE
HsDecideMut ==
  /\ pc = "hs_check"
  /\ IF ~CanSend
       THEN HsFail("transport") /\ UNCHANGED sent
       ELSE /\ sent' = IF Rejects(reply)
                         THEN sent \o <<"BREAK", "HANDSHAKE">>
                         ELSE Append(sent, "HANDSHAKE")
            /\ pc' = "admitted"
            /\ hsOutcome' = "ok"
            /\ UNCHANGED hsCause
  /\ UNCHANGED <<reply, got, transport, peer, admitVars, groupVars, killVars,
                 extCloses, hookVars, errCalls, raised, loopVars>>

\* lines 119-122: BREAK and ValueError, or the final HANDSHAKE
HsDecide ==
  /\ pc = "hs_check"
  /\ IF ~CanSend
       THEN HsFail("transport") /\ UNCHANGED sent
       ELSE IF Rejects(reply)
              THEN /\ sent' = Append(sent, "BREAK")
                   /\ HsFail("rejected")
              ELSE /\ sent' = Append(sent, "HANDSHAKE")
                   /\ pc' = "admitted"
                   /\ hsOutcome' = "ok"
                   /\ UNCHANGED hsCause
  /\ UNCHANGED <<reply, got, transport, peer, admitVars, groupVars, killVars,
                 extCloses, hookVars, errCalls, raised, loopVars>>

\* a deadline whose TimeoutError is not caught by the except clause
HsTimeoutMut ==
  /\ pc \in HsStates
  /\ pc' = "raised"
  /\ hsOutcome' = "failed"
  /\ hsCause' = "timeout"
  /\ raised' = "TimeoutError"
  /\ UNCHANGED <<reply, got, transport, peer, sent, admitVars, groupVars,
                 killVars, extCloses, hookVars, errCalls, loopVars>>

\* lines 50-54: the 20 second deadline of wait_for expires while handshake()
\* is suspended; the handshake is cancelled and TimeoutError is raised
HsTimeout ==
  /\ pc \in HsStates
  /\ HsFail("timeout")
  /\ UNCHANGED <<reply, got, transport, peer, sent, admitVars, groupVars,
                 killVars, extCloses, hookVars, errCalls, raised, loopVars>>

\* a register() without the else: a handled code 2 falls through to _register
RegisterFailMut ==
  /\ pc = "hs_failed"
  /\ errCalls' = [errCalls EXCEPT ![2] = @ + 1]
  /\ \E ret \in HookRet :
       IF Unhandled(ret)
         THEN pc' = "raised" /\ raised' = Raise(ErrorLookup(2))
         ELSE pc' = "admitted" /\ UNCHANGED raised
  /\ reply' = NoReply
  /\ UNCHANGED <<hsOutcome, hsCause, got, transport, peer, sent, admitVars,
                 groupVars, killVars, extCloses, hookVars, loopVars>>

\* lines 55-56 with raise_error_code (180-186): any exception is code 2;
\* the locals of handshake() are gone
RegisterFail ==
  /\ pc = "hs_failed"
  /\ errCalls' = [errCalls EXCEPT ![2] = @ + 1]
  /\ \E ret \in HookRet :
       IF Unhandled(ret)
         THEN pc' = "raised" /\ raised' = Raise(ErrorLookup(2))
         ELSE pc' = "done" /\ UNCHANGED raised
  /\ reply' = NoReply
  /\ UNCHANGED <<hsOutcome, hsCause, got, transport, peer, sent, admitVars,
                 groupVars, killVars, extCloses, hookVars, loopVars>>

\* ------------------------------------------------------------- admission
\* a _register() that schedules the join hook without calling add_client
AddClientMut ==
  /\ pc = "admitted"
  /\ pc' = "registered"
  /\ reply' = NoReply
  /\ UNCHANGED <<hsOutcome, hsCause, got, transport, peer, sent, admitVars,
                 groupVars, killVars, extCloses, hookVars, errCalls, raised,
                 loopVars>>

\* line 195: await self.server.add_client(self); handshake() has returned
\* and its locals are gone
AddClient ==
  /\ pc = "admitted"
  /\ registry' = registry \cup {1}
  /\ addClientCalls' = addClientCalls + 1
  /\ pc' = "registered"
  /\ reply' = NoReply
  /\ UNCHANGED <<hsOutcome, hsCause, got, transport, peer, sent, joinTask,
                 joinCount, groupVars, killVars, extCloses, hookVars, errCalls,
                 raised, loopVars>>

\* line 198: create_task(self.call('join')), then register() enters listen()
ScheduleJoin ==
  /\ pc = "registered"
  /\ joinTask' = "scheduled"
  /\ joinCount' = joinCount + 1
  /\ pc' = "listen"
  /\ UNCHANGED <<hsVars, transport, peer, sent, registry, addClientCalls,
                 groupVars, killVars, extCloses, hookVars, errCalls,
                 raised, loopVars>>

\* the event loop runs the join task
JoinRun ==
  /\ joinTask = "scheduled"
  /\ joinTask' = "ran"
  /\ UNCHANGED <<pc, hsVars, transport, peer, sent, registry, addClientCalls,
                 joinCount, groupVars, killVars, extCloses, hookVars,
                 errCalls, raised, loopVars>>

\* ---------------------------------------------------------- close / kill
\* a close() that also drops the group memberships, as kill() does
closeMut ==
  /\ transport' = "closed"
  /\ member' = [g \in Groups |-> FALSE]
  /\ UNCHANGED <<groups, registry, leftCount>>

\* line 72: self.writer.close(); closing a closed writer changes nothing
close ==
  /\ transport' = "closed"
  /\ UNCHANGED <<groupVars, registry, leftCount>>

\* outside callers (handlers, the server) find the session in the server's
\* client registry; they run while the task of register() is suspended, and
\* nothing suspends it between the return of add_client and the first recv
Reachable == 1 \in registry /\ pc # "registered"

\* close() called from outside kill()
ExtClose ==
  /\ Reachable
  /\ extCloses + killCalls["ext"] < MaxExtCalls
  /\ close
  /\ extCloses' = extCloses + 1
  /\ UNCHANGED <<pc, hsVars, peer, sent, addClientCalls, joinTask, joinCount,
                 kpc, pending, killCalls, afterClose, steps,
                 hookVars, errCalls, raised, loopVars>>

\* Group.remove(session): the group no longer contains the session
GroupRemove(m, g) == [m EXCEPT ![g] = FALSE]

\* Group.add(session) by the server's join orchestration, for a live session;
\* the groups are interchangeable and are joined in the order of their numbers
GroupAdd ==
  /\ pc = "listen"
  /\ \A c \in Callers : killCalls[c] = 0
  /\ \E g \in Groups \ groups :
       /\ \A h \in Groups \ groups : g <= h
       /\ groups' = groups \cup {g}
       /\ member' = [member EXCEPT ![g] = TRUE]
  /\ UNCHANGED <<pc, hsVars, transport, peer, sent, admitVars, killVars,
                 extCloses, hookVars, errCalls, raised, loopVars>>

\* caller c may enter kill(): the dispatch loop at line 138, or an outside
\* caller whose previous kill() is over
MayKill(c) ==
  IF c = "listen"
    THEN pc = "kill" /\ kpc[c] = "none"
    ELSE /\ Reachable
         /\ kpc[c] \in {"none", "returned", "raised"}
         /\ extCloses + killCalls[c] < MaxExtCalls

\* a kill() whose removals skip one group of self.groups
killMut(c) ==
  /\ MayKill(c)
  /\ close
  /\ killCalls' = [killCalls EXCEPT ![c] = @ + 1]
  /\ afterClose' = [afterClose EXCEPT ![c] = extCloses > 0]
  /\ steps' = [steps EXCEPT ![c] = <<"close">>]
  /\ IF groups = {}
       THEN /\ kpc' = [kpc EXCEPT ![c] = "raised"]
            /\ pending' = [pending EXCEPT ![c] = {}]
       ELSE /\ kpc' = [kpc EXCEPT ![c] = "wait"]
            /\ pending' = [pending EXCEPT ![c] =
                             groups \ {CHOOSE g \in groups : TRUE}]
  /\ UNCHANGED <<pc, hsVars, peer, sent, addClientCalls, joinTask, joinCount,
                 extCloses, hookVars, errCalls, raised, loopVars>>

\* lines 85-86: close(), then asyncio.wait over one removal per group of
\* self.groups; asyncio.wait raises ValueError for an empty list
kill(c) ==
  /\ MayKill(c)
  /\ close
  /\ killCalls' = [killCalls EXCEPT ![c] = @ + 1]
  /\ afterClose' = [afterClose EXCEPT ![c] = extCloses > 0]
  /\ steps' = [steps EXCEPT ![c] = <<"close">>]
  /\ IF groups = {}
       THEN /\ kpc' = [kpc EXCEPT ![c] = "raised"]
            /\ pending' = [pending EXCEPT ![c] = {}]
       ELSE /\ kpc' = [kpc EXCEPT ![c] = "wait"]
            /\ pending' = [pending EXCEPT ![c] = groups]
  /\ UNCHANGED <<pc, hsVars, peer, sent, addClientCalls, joinTask, joinCount,
                 extCloses, hookVars, errCalls, raised, loopVars>>

\* the event loop starts tasks in the order of their creation: a task
\* created after the join task runs only after the join task has run
JoinStarted == joinTask # "scheduled"

\* line 86: one of the removal tasks asyncio.wait waits for runs; the groups
\* are interchangeable, a kill() works through its groups in the order of
\* their numbers
KillRemove(c) ==
  /\ kpc[c] = "wait"
  /\ JoinStarted
  /\ \E g \in pending[c] :
       /\ \A h \in pending[c] : g <= h
       /\ member' = GroupRemove(member, g)
       /\ pending' = [pending EXCEPT ![c] = @ \ {g}]
  /\ steps' = [steps EXCEPT ![c] = Append(@, "remove")]
  /\ UNCHANGED <<pc, hsVars, transport, peer, sent, admitVars, groups, kpc,
                 killCalls, afterClose, leftCount,
                 extCloses, hookVars, errCalls, raised, loopVars>>

\* a wait that, like gather, lets the exception of a removal leave kill()
KillRemoveFailMut(c) ==
  /\ kpc[c] = "wait"
  /\ JoinStarted
  /\ pending[c] # {}
  /\ pending' = [pending EXCEPT ![c] = {}]
  /\ steps' = [steps EXCEPT ![c] = Append(@, "remove_failed")]
  /\ kpc' = [kpc EXCEPT ![c] = "raised"]
  /\ UNCHANGED <<pc, hsVars, transport, peer, sent, admitVars, groupVars,
                 killCalls, afterClose, leftCount,
                 extCloses, hookVars, errCalls, raised, loopVars>>

\* line 86 when Group.remove raises: the exception stays in the removal's
\* task, the group keeps the session, and asyncio.wait goes on waiting for
\* the other removals
KillRemoveFail(c) ==
  /\ kpc[c] = "wait"
  /\ JoinStarted
  /\ \E g \in pending[c] :
       /\ \A h \in pending[c] : g <= h
       /\ pending' = [pending EXCEPT ![c] = @ \ {g}]
  /\ steps' = [steps EXCEPT ![c] = Append(@, "remove_failed")]
  /\ UNCHANGED <<pc, hsVars, transport, peer, sent, admitVars, groupVars, kpc,
                 killCalls, afterClose, leftCount,
                 extCloses, hookVars, errCalls, raised, loopVars>>

\* lines 88-89: all removals are done; create_task(self.call('left'))
KillLeft(c) ==
  /\ kpc[c] = "wait"
  /\ pending[c] = {}
  /\ leftCount' = leftCount + 1
  /\ steps' = [steps EXCEPT ![c] = Append(@, "left")]
  /\ kpc' = [kpc EXCEPT ![c] = "returned"]
  /\ UNCHANGED <<pc, hsVars, transport, peer, sent, admitVars, groupVars,
                 pending, killCalls, afterClose,
                 extCloses, hookVars, errCalls, raised, loopVars>>

\* --------------------------------------------------------- dispatch loop
\* a loop that awaits process() itself: it receives the next message only
\* when the tasks of the earlier messages are over
listenMut ==
  /\ pc = "listen"
  /\ \/ /\ CanRecv
        /\ recvCount < MaxMsgs
        /\ \A i \in 1 .. Len(tasks) : tasks[i].st \notin {"pending", "running"}
        /\ \E m \in AppMethods :
             tasks' = Append(tasks, [n |-> recvCount + 1, method |-> m,
                                     st |-> "pending"])
        /\ recvCount' = recvCount + 1
        /\ UNCHANGED pc
     \/ /\ CanRecv
        /\ pc' = "kill"
        /\ UNCHANGED loopVars
     \/ /\ ~CanRecv
        /\ pc' = "kill"
        /\ UNCHANGED loopVars
  /\ UNCHANGED <<hsVars, transport, peer, sent, admitVars, groupVars, killVars,
                 extCloses, hookVars, errCalls, raised>>

\* lines 131-137: one round of the loop; a message becomes a process() task,
\* ValueError / ConnectionResetError break out of the loop
listen ==
  /\ pc = "listen"
  /\ \/ /\ CanRecv
        /\ recvCount < MaxMsgs
        /\ \E m \in AppMethods :
             tasks' = Append(tasks, [n |-> recvCount + 1, method |-> m,
                                     st |-> "pending"])
        /\ recvCount' = recvCount + 1
        /\ UNCHANGED pc
     \/ /\ CanRecv          \* malformed data: ValueError
        /\ pc' = "kill"
        /\ UNCHANGED loopVars
     \/ /\ ~CanRecv         \* ConnectionResetError
        /\ pc' = "kill"
        /\ UNCHANGED loopVars
  /\ UNCHANGED <<hsVars, transport, peer, sent, admitVars, groupVars, killVars,
                 extCloses, hookVars, errCalls, raised>>

\* line 138: kill() called by listen() is over; listen() and register()
\* return, or the exception of kill() leaves them
ListenEnd ==
  /\ pc = "kill"
  /\ kpc["listen"] \in {"returned", "raised"}
  /\ IF kpc["listen"] = "returned"
       THEN pc' = "done" /\ UNCHANGED raised
       ELSE pc' = "raised" /\ raised' = "ValueError"
  /\ UNCHANGED <<hsVars, transport, peer, sent, admitVars, groupVars, killVars,
                 extCloses, hookVars, errCalls, loopVars>>

\* a process() whose unhandled code 6 error reaches the dispatch loop and
\* ends it
processMut(i) ==
  /\ tasks[i].st = "pending"
  /\ JoinStarted
  /\ \A j \in 1 .. i - 1 : tasks[j].st # "pending"
  /\ IF tasks[i].method \in Request
       THEN /\ tasks' = [tasks EXCEPT ![i].st = "running"]
            /\ UNCHANGED <<errCalls, pc>>
       ELSE /\ errCalls' = [errCalls EXCEPT ![6] = @ + 1]
            /\ \E ret \in HookRet :
                 /\ tasks' = [tasks EXCEPT ![i].st =
                                IF Unhandled(ret) THEN "raised" ELSE "handled"]
                 /\ pc' = IF Unhandled(ret) /\ pc = "listen" THEN "kill" ELSE pc
  /\ UNCHANGED <<hsVars, transport, peer, sent, admitVars, groupVars,
                 killVars, extCloses, hookVars, raised, recvCount>>

\* lines 162-165: a process() task runs (tasks start in the order of their
\* creation): the handler of a registered method is invoked and awaited, any
\* other method is error code 6
process(i) ==
  /\ tasks[i].st = "pending"
  /\ JoinStarted
  /\ \A j \in 1 .. i - 1 : tasks[j].st # "pending"
  /\ IF tasks[i].method \in Request
       THEN /\ tasks' = [tasks EXCEPT ![i].st = "running"]
            /\ UNCHANGED errCalls
       ELSE /\ errCalls' = [errCalls EXCEPT ![6] = @ + 1]
            /\ \E ret \in HookRet :
                 tasks' = [tasks EXCEPT ![i].st =
                             IF Unhandled(ret) THEN "raised" ELSE "handled"]
  /\ UNCHANGED <<pc, hsVars, transport, peer, sent, admitVars, groupVars,
                 killVars, extCloses, hookVars, raised, recvCount>>

\* a handler whose exception reaches the dispatch loop and ends it
HandlerEndMut(i) ==
  /\ tasks[i].st = "running"
  /\ \E out \in {"returned", "failed"} :
       /\ tasks' = [tasks EXCEPT ![i].st = out]
       /\ pc' = IF out = "failed" /\ pc = "listen" THEN "kill" ELSE pc
  /\ UNCHANGED <<hsVars, transport, peer, sent, admitVars, groupVars,
                 killVars, extCloses, hookVars, errCalls, raised, recvCount>>

\* line 164: the awaited handler returns or raises; the exception leaves
\* process() and ends its task
HandlerEnd(i) ==
  /\ tasks[i].st = "running"
  /\ \E out \in {"returned", "failed"} :
       tasks' = [tasks EXCEPT ![i].st = out]
  /\ UNCHANGED <<pc, hsVars, transport, peer, sent, admitVars, groupVars,
                 killVars, extCloses, hookVars, errCalls, raised, recvCount>>

\* line 164: the handler answers through the client it was given,
\* client.send(...), and ends; on a dead transport the send fails and the
\* exception leaves the handler and process()
HandlerSend(i) ==
  /\ tasks[i].st = "running"
  /\ tasks' = [tasks EXCEPT ![i].st =
                 IF CanSend THEN "returned" ELSE "send_failed"]
  /\ UNCHANGED <<pc, hsVars, transport, peer, sent, admitVars, groupVars,
                 killVars, extCloses, hookVars, errCalls, raised, recvCount>>

\* ------------------------------------------------------------------ spec
Next ==
  \/ register
  \/ HsSendGreeting
  \/ HsExpectEcho
  \/ HsSendPhase1
  \/ HsExpectAck
  \/ HsDecide
  \/ HsTimeout
  \/ RegisterFail
  \/ AddClient
  \/ ScheduleJoin
  \/ JoinRun
  \/ listen
  \/ ListenEnd
  \/ \E i \in 1 .. Len(tasks) : process(i)
  \/ \E i \in 1 .. Len(tasks) : HandlerEnd(i)
  \/ \E i \in 1 .. Len(tasks) : HandlerSend(i)
  \/ ExtClose
  \/ GroupAdd
  \/ \E c \in Callers : kill(c)
  \/ \E c \in Callers : KillRemove(c)
  \/ \E c \in Callers : KillLeft(c)
  \/ PeerDisconnect

Spec == Init /\ [][Next]_vars

SpecErr == Init /\ [][NextErr]_vars

\* lines 131-134 for a peer that sends no application message: recv fails
listenFails == listen /\ UNCHANGED loopVars

\* the session among groups whose remove may raise; its peer sends no
\* application message
NextFail ==
  \/ register
  \/ HsSendGreeting
  \/ HsExpectEcho
  \/ HsSendPhase1
  \/ HsExpectAck
  \/ HsDecide
  \/ HsTimeout
  \/ RegisterFail
  \/ AddClient
  \/ ScheduleJoin
  \/ JoinRun
  \/ listenFails
  \/ ListenEnd
  \/ ExtClose
  \/ GroupAdd
  \/ \E c \in Callers : kill(c)
  \/ \E c \in Callers : KillRemove(c)
  \/ \E c \in Callers : KillRemoveFail(c)
  \/ \E c \in Callers : KillLeft(c)
  \/ PeerDisconnect

SpecFail == Init /\ [][NextFail]_vars

TypeOK ==
  /\ pc \in HsStates \cup {"new", "hs_failed", "admitted", "registered",
                           "listen", "kill", "done", "raised"}
  /\ hsOutcome \in {"none", "ok", "failed"}
  /\ transport \in {"open", "closed"}
  /\ groups \subseteq Groups
  /\ recvCount = Len(tasks)

\* ---------------------------------------------------------------- claims
\* the admission rule of the handshake: status okay and version supported
Acceptable(code) ==
  Lower(code.status) = "okay" /\ code.version \in supported_versions

\* register() is over: it returned or raised
RegisterOver == pc \in {"done", "raised"}

\* caller c's kill() is over: it returned or raised
KillOver(c) == kpc[c] \in {"returned", "raised"}

\* C1: when handshake() has just judged a PHASE 1 reply, it is Admitted exactly
\* when the reply's status is okay and its version is supported; every other
\* reply is answered with BREAK and fails.
C1_AdmissionRule ==
  (pc = "admitted" \/ (pc = "hs_failed" /\ hsCause = "rejected")) =>
     /\ (hsOutcome = "ok") <=> Acceptable(reply)
     /\ hsOutcome = "ok" => sent[Len(sent)] = "HANDSHAKE"
     /\ hsOutcome = "failed" => sent[Len(sent)] = "BREAK"

\* C2: when the handshake has failed, add_client is never called, no join
\* task is created, the dispatch loop never receives and no process() task
\* exists, now or later; register() only signals code 2 and ends.
C2_NoAdmissionAfterFailure ==
  hsOutcome = "failed" =>
     /\ addClientCalls = 0 /\ registry = {}
     /\ joinCount = 0 /\ joinTask = "none"
     /\ recvCount = 0 /\ tasks = <<>>
     /\ killCalls["listen"] = 0
     /\ pc \in {"hs_failed", "done", "raised"}

C2_Witness ==
  /\ hsOutcome = "failed" /\ hsCause = "rejected"
  /\ pc = "done" /\ errCalls[2] = 1

\* C3: after a successful handshake add_client is called once and the join
\* task is created once, in the order Admitted, add_client, join scheduled,
\* first recv; register() reaches recv without waiting for the join task.
C3_AdmissionOrder ==
  /\ addClientCalls <= 1 /\ joinCount <= 1
  /\ addClientCalls = 1 => hsOutcome = "ok" /\ registry = {1}
  /\ joinCount = 1 => addClientCalls = 1
  /\ (hsOutcome = "ok" /\ pc # "admitted") => addClientCalls = 1
  /\ (hsOutcome = "ok" /\ pc \notin {"admitted", "registered"}) => joinCount = 1
  /\ pc = "listen" => addClientCalls = 1 /\ joinCount = 1
  /\ (recvCount > 0 \/ tasks # <<>>) => addClientCalls = 1 /\ joinCount = 1
  /\ (joinTask # "none") <=> (joinCount = 1)

C3_Witness ==
  /\ hsOutcome = "ok" /\ addClientCalls = 1 /\ joinCount = 1
  /\ recvCount > 0 /\ joinTask = "scheduled"

\* C4: register() calls raise_error_code(2) exactly once for a failed
\* handshake, whatever the cause (mismatch, rejected reply, transport
\* failure, deadline), and never for a successful one.
C4_Code2ExactlyOnce ==
  /\ errCalls[2] <= 1
  /\ errCalls[2] = 1 => hsOutcome = "failed"
  /\ hsOutcome = "ok" => errCalls[2] = 0
  /\ hsOutcome = "failed" => pc \in {"hs_failed", "done", "raised"}
  /\ (hsOutcome = "failed" /\ pc = "hs_failed") => errCalls[2] = 0
  /\ (hsOutcome = "failed" /\ RegisterOver) => errCalls[2] = 1

C4_Witness ==
  /\ hsOutcome = "failed" /\ hsCause = "timeout"
  /\ pc = "raised" /\ errCalls[2] = 1

\* C5: when register() is over after a failed handshake, the transport is
\* closed.
C5_FailedHandshakeClosesTransport ==
  (hsOutcome = "failed" /\ RegisterOver) => transport = "closed"

\* C6: the dispatch loop of an admitted session ends only through kill(),
\* called exactly once by listen(), and listen() raises nothing to its
\* caller.
C6_LoopEndsThroughKillQuietly ==
  /\ killCalls["listen"] <= 1
  /\ (hsOutcome = "ok" /\ RegisterOver) =>
        /\ killCalls["listen"] = 1
        /\ pc = "done"
        /\ raised = "none"

C8_KillFullTeardown ==
  \A c \in Callers :
     KillOver(c) =>
        LET n == Cardinality(groups) IN
          /\ Len(steps[c]) = n + 2
          /\ steps[c][1] = "close"
          /\ \A i \in 2 .. n + 1 : steps[c][i] = "remove"
          /\ steps[c][n + 2] = "left"

\* C9: a call of close() leaves the transport closed and changes neither the
\* group memberships, nor self.groups, nor the server's registry, nor the
\* number of left tasks, whether the transport was open or closed before
\* (in the witness a kill() had closed it before close() was called).
C9_CloseOnlyTransport ==
  [][extCloses' # extCloses =>
       /\ transport' = "closed"
       /\ member' = member /\ groups' = groups
       /\ registry' = registry
       /\ leftCount' = leftCount]_vars

C9_Witness ==
  /\ extCloses >= 1 /\ transport = "closed"
  /\ killCalls["ext"] = 1 /\ ~afterClose["ext"] /\ kpc["ext"] = "wait"
  /\ \E g \in Groups : member[g]
  /\ registry = {1} /\ leftCount = 0

\* C10: after close() and before any kill() the session is still in all its
\* groups, and a kill() entered after close() removes the session from every
\* group and creates the left task exactly once.
C10_CloseThenKill ==
  /\ (extCloses > 0 /\ \A c \in Callers : killCalls[c] = 0) =>
        \A g \in groups : member[g]
  /\ \A c \in Callers :
        (afterClose[c] /\ KillOver(c)) =>
           /\ \A g \in Groups : ~member[g]
           /\ Len(SelectSeq(steps[c], LAMBDA x : x = "left")) = 1

\* the process() tasks of the messages whose method has no handler
Unregistered == {i \in 1 .. Len(tasks) : tasks[i].method \notin Request}

\* C11: a message whose method is not registered is answered with error
\* code 6 (once per such message, without any handler being invoked) and
\* that step neither ends the dispatch loop nor starts a kill() nor closes
\* the transport, hook or no hook; each message's task is started once, and
\* only the task of a registered method reaches its handler.
C11_UnknownMethodKeepsSession ==
  /\ [](/\ \A i \in Unregistered :
              tasks[i].st \in {"pending", "raised", "handled"}
        /\ Cardinality({i \in Unregistered : tasks[i].st # "pending"})
              = errCalls[6]
        /\ \A i \in 1 .. Len(tasks) :
              tasks[i].st \in {"raised", "handled"} => i \in Unregistered)
  /\ [][/\ errCalls'[6] # errCalls[6] =>
              /\ pc' = pc /\ kpc' = kpc /\ killCalls' = killCalls
              /\ transport' = transport /\ registry' = registry
              /\ raised' = raised /\ recvCount' = recvCount
        /\ \A i \in 1 .. Len(tasks) :
              /\ tasks[i].st # "pending" => tasks'[i].st # "pending"
              /\ (tasks'[i].st = "running" /\ tasks[i].st # "running") =>
                    tasks[i].st = "pending" /\ tasks[i].method \in Request]_vars

C11_Witness ==
  /\ ~hook /\ pc = "listen" /\ transport = "open"
  /\ \A c \in Callers : killCalls[c] = 0
  /\ Len(tasks) = 2
  /\ tasks[1].method = "bar" /\ tasks[1].st = "raised"
  /\ tasks[2].method = "foo" /\ tasks[2].st = "returned"

\* task i ended with an exception: unhandled error code 6, or the handler
\* raised (of its own, or because its send failed)
Failed(t, i) == t[i].st \in {"raised", "failed", "send_failed"}

\* a step in which some process() task ends with an exception
TaskFails ==
  \E i \in 1 .. Len(tasks) : Failed(tasks', i) /\ ~Failed(tasks, i)

\* C12 (as stated): a process() task that ends with an unhandled failure
\* ends the dispatch loop with it, which goes on to kill().
C12_FailureEndsLoop ==
  [][(TaskFails /\ pc = "listen") => pc' = "kill"]_vars

\* C12 (amended): a process() task that ends with an unhandled failure ends
\* alone: the step leaves the loop, every kill(), the transport and what
\* register() raised as they were; the loop leaves recv only because recv
\* itself failed, and then enters kill() at most once.
C12_FailureStaysInTask ==
  /\ [][/\ TaskFails =>
              /\ pc' = pc /\ kpc' = kpc /\ killCalls' = killCalls
              /\ transport' = transport /\ raised' = raised
              /\ recvCount' = recvCount
        /\ (pc = "listen" /\ pc' # "listen") =>
              pc' = "kill" /\ tasks' = tasks /\ errCalls' = errCalls]_vars
  /\ [](killCalls["listen"] <= 1)

C12_Witness ==
  /\ pc = "listen" /\ transport = "open" /\ peer = "up"
  /\ \A c \in Callers : killCalls[c] = 0
  /\ Len(tasks) = 2
  /\ tasks[1].method = "foo" /\ tasks[1].st = "failed"
  /\ tasks[2].method = "bar" /\ tasks[2].st = "raised"

\* the loop receives one more message
Receives == listen /\ recvCount' = recvCount + 1

\* C13: whatever the tasks of the earlier messages are doing (waiting to
\* start, inside a handler, failed), the loop at recv on a live transport can
\* receive the next message; a received message is appended to the tasks
\* without touching the earlier ones, the tasks carry the arrival numbers
\* 1, 2, ... in order, and they are started in that order.
C13_ReceiptNeverBlocked ==
  /\ []((pc = "listen" /\ CanRecv /\ recvCount < MaxMsgs) => ENABLED Receives)
  /\ [](\A i \in 1 .. Len(tasks) :
           /\ tasks[i].n = i
           /\ \A j \in 1 .. i - 1 :
                 tasks[i].st # "pending" => tasks[j].st # "pending")
  /\ [][recvCount' # recvCount =>
          /\ Len(tasks') = Len(tasks) + 1
          /\ SubSeq(tasks', 1, Len(tasks)) = tasks
          /\ tasks'[Len(tasks')].st = "pending"]_vars

C13_Witness ==
  /\ Len(tasks) = 2
  /\ tasks[1].st = "running"
  /\ tasks[2].st \in {"returned", "handled", "raised"}

\* the raise_error_code calls made so far
ErrCalls == {errLog[k] : k \in 1 .. Len(errLog)}

\* C14: a raise_error_code call raises exactly when the hook is absent or
\* returned -1, what it raises is the error it looked up, and it calls the
\* hook exactly once.
C14_ErrorHookGate ==
  \A e \in ErrCalls :
     /\ (e.exc # "none") <=> (~hook \/ e.ret = -1)
     /\ e.exc # "none" => e.exc = e.error
     /\ e.hookCalls = 1

\* C15: the table holds exactly 2 -> HandshakeError and 6 -> Recved404Error,
\* so -1 is no key; for a code outside the table the lookup yields the
\* sentinel -1 without failing, and the hook is called once with it.
C15_UnknownCodeSentinel ==
  /\ DOMAIN error_codes = {2, 6} /\ -1 \notin DOMAIN error_codes
  /\ error_codes[2] = "HandshakeError" /\ error_codes[6] = "Recved404Error"
  /\ \A e \in ErrCalls :
       IF e.code \in DOMAIN error_codes
         THEN e.error = error_codes[e.code]
         ELSE /\ e.error = "-1"
              /\ e.hookCalls = 1 /\ e.hookArg = "-1"
              /\ e.exc \in {"none", Raise("-1")}

C15_Witness ==
  /\ hook /\ Len(errLog) = 2
  /\ errLog[1].code = 9 /\ errLog[1].hookArg = "-1" /\ errLog[1].ret = 0
  /\ errLog[1].exc = "none"
  /\ errLog[2].code = -1 /\ errLog[2].error = "-1"

\* some kill() has been entered
KillInvoked == \E c \in Callers : killCalls[c] > 0

\* C16: once kill() has been entered, the dispatch loop receives nothing
\* more and no handler attempts a send on the session's transport.
C16_NoIOAfterKill ==
  [][KillInvoked =>
       /\ recvCount' = recvCount
       /\ \A i \in 1 .. Len(tasks) :
             tasks'[i].st = "send_failed" => tasks[i].st = "send_failed"]_vars

\* the removals caller c's kill() has attempted, failed ones included
Attempts(c) ==
  Len(SelectSeq(steps[c], LAMBDA x : x \in {"remove", "remove_failed"}))

IsPrefix(s, t) == Len(s) <= Len(t) /\ SubSeq(t, 1, Len(s)) = s

\* C18: what handshake() has sent is a prefix of HANDSHAKE, PHASE 1, final
\* HANDSHAKE or of HANDSHAKE, PHASE 1, BREAK; PHASE 1 is sent only after a
\* HANDSHAKE echo was received, the third message only after a PHASE 1 reply
\* was received; the final HANDSHAKE is the successful end, BREAK the
\* rejecting one, and a reply that handshake() rejects is answered with BREAK.
C18_HandshakeMessageOrder ==
  /\ \/ IsPrefix(sent, <<"HANDSHAKE", "PHASE 1", "HANDSHAKE">>)
     \/ IsPrefix(sent, <<"HANDSHAKE", "PHASE 1", "BREAK">>)
  /\ Len(sent) >= 2 => Len(got) >= 1 /\ got[1] = "HANDSHAKE"
  /\ Len(sent) = 3 => Len(got) = 2 /\ got[2] = "PHASE 1"
  /\ (Len(sent) = 3 /\ sent[3] = "HANDSHAKE") <=> hsOutcome = "ok"
  /\ (Len(sent) = 3 /\ sent[3] = "BREAK") <=> hsCause = "rejected"
  /\ (pc = "hs_failed" /\ hsCause = "rejected") => Rejects(reply)
  /\ (pc = "hs_failed" /\ hsCause = "mismatch") => reply = NoReply

C18_Witness ==
  /\ sent = <<"HANDSHAKE", "PHASE 1", "BREAK">>
  /\ got = <<"HANDSHAKE", "PHASE 1">>
  /\ pc = "hs_failed" /\ hsCause = "rejected" /\ Rejects(reply)

\* C19: a raise_error_code call with a code outside the table that is not
\* handled raises UndefinedError to its caller.
C19_UnknownCodeRaisesUndefinedError ==
  \A e \in ErrCalls :
     (e.code \notin DOMAIN error_codes /\ Unhandled(e.ret)) =>
        e.exc = "UndefinedError"

\* C20: however often and by whomever kill() is entered, the left task is
\* created at most once for the session, and the kill() calls together
\* attempt at most one removal per group.
C20_SingleTeardown ==
  /\ leftCount <= 1
  /\ (\A c \in Callers : killCalls[c] <= 1) =>
        Attempts("listen") + Attempts("ext") <= Cardinality(groups)

====
